---- MODULE Spec2Model ----
(***************************************************************************)
(* Model of shigotolog: the working-date / time model and the parsers of   *)
(* core/src/datetime.rs, the record aggregation of core/src/task.rs, the   *)
(* store of core/src/sqlite_db.rs and the commands of sgt/src/subcommand.  *)
(*                                                                         *)
(* A NaiveDate is a day number (consecutive integers are consecutive       *)
(* calendar days).  The dates of the model lie inside chrono's             *)
(* representable range, as every date the command line can produce does    *)
(* (parse_date only accepts four-digit years), so pred_opt and             *)
(* checked_add_days(1) always return Some there.                           *)
(* A NaiveDateTime is a record [date, hour, min, sec]; a TaskTime wraps a  *)
(* NaiveDateTime whose sec is 0.  A TimeDelta between TaskTimes is a       *)
(* signed number of minutes.                                               *)
(*                                                                         *)
(* db is the store of core/src/sqlite_db.rs: the rows of its tasks and     *)
(* records tables, in id order.  The specifications of single function     *)
(* calls leave it as initialize() creates it.                              *)
(***************************************************************************)
EXTENDS Integers, Sequences, FiniteSets, TLC

VARIABLES call, ret, db

vars == <<call, ret, db>>

(***************************************************************************)
(* Bounds of the model.                                                    *)
(***************************************************************************)
MaxDay == 2
MaxHour == 25
MaxMin == 61
MaxStrLen == 5
MaxRecords == 3
MaxRows == 2

Dates == 0..MaxDay
Hours == 0..MaxHour
Mins == 0..MaxMin

(***************************************************************************)
(* Option and Result values.                                               *)
(***************************************************************************)
None == [some |-> FALSE]
Some(x) == [some |-> TRUE, val |-> x]
Ok(x) == [ok |-> TRUE, val |-> x]
Err(e) == [ok |-> FALSE, err |-> e]

\* the tables after SQLiteDatabase::initialize: no task and no record
EmptyDb == [tasks |-> <<>>, records |-> <<>>]

(***************************************************************************)
(* chrono values.                                                          *)
(***************************************************************************)
and_hms_opt(date, h, m, s) ==
    IF h < 24 /\ m < 60 /\ s < 60
    THEN Some([date |-> date, hour |-> h, min |-> m, sec |-> s])
    ELSE None

from_hms_opt(h, m, s) ==
    IF h < 24 /\ m < 60 /\ s < 60
    THEN Some([hour |-> h, min |-> m, sec |-> s])
    ELSE None

and_time(date, time) ==
    [date |-> date, hour |-> time.hour, min |-> time.min, sec |-> time.sec]

SecondOfDay(t) == (t.hour * 60 + t.min) * 60 + t.sec

\* Ord of NaiveTime
TimeLt(a, b) == SecondOfDay(a) < SecondOfDay(b)

\* Ord of NaiveDateTime: by date, then by time of day
DateTimeGeq(a, b) ==
    \/ a.date > b.date
    \/ a.date = b.date /\ SecondOfDay(a) >= SecondOfDay(b)

pred_opt(date) == Some(date - 1)
checked_add_days(date, n) == Some(date + n)

(***************************************************************************)
(* TaskTime                                                                *)
(***************************************************************************)
\* the seconds are kept
TaskTimeFromKeepSeconds(value) == value

\* impl From<NaiveDateTime> for TaskTime
TaskTimeFrom(value) == [value EXCEPT !.sec = 0]

\* The minute-truncated TaskTimes of the model
TaskTimes ==
    {[date |-> d, hour |-> h, min |-> m, sec |-> 0] :
        d \in Dates, h \in 0..23, m \in 0..59}

\* Minutes since 00:00 of day 0
MinuteOf(t) == (t.date * 24 + t.hour) * 60 + t.min

\* impl Sub for TaskTime: a TimeDelta in minutes
TaskTimeSub(a, b) == MinuteOf(a) - MinuteOf(b)

(***************************************************************************)
(* WorkingDate                                                             *)
(***************************************************************************)
\* the cutoff compared with > instead of >=
WorkingDateFromStrict(value) ==
    LET date == value.date
        start == and_hms_opt(date, 5, 0, 0).val
    IN  IF ~DateTimeGeq(start, value) THEN date ELSE pred_opt(date).val

\* impl From<TaskTime> for WorkingDate
WorkingDateFrom(value) ==
    LET date == value.date
        start == and_hms_opt(date, 5, 0, 0).val
    IN  IF DateTimeGeq(value, start) THEN date ELSE pred_opt(date).val

\* the cutoff compared with <= instead of <
and_hm_optInclusive(self, hour, min) ==
    LET centinel == from_hms_opt(5, 0, 0).val
        time == from_hms_opt(hour, min, 0)
    IN  IF time.some
        THEN IF ~TimeLt(centinel, time.val)
             THEN Some(TaskTimeFrom(and_time(checked_add_days(self, 1).val, time.val)))
             ELSE Some(TaskTimeFrom(and_hms_opt(self, hour, min, 0).val))
        ELSE None

\* WorkingDate::and_hm_opt
and_hm_opt(self, hour, min) ==
    LET centinel == from_hms_opt(5, 0, 0).val
        time == from_hms_opt(hour, min, 0)
    IN  IF time.some
        THEN IF TimeLt(time.val, centinel)
             THEN Some(TaskTimeFrom(and_time(checked_add_days(self, 1).val, time.val)))
             ELSE Some(TaskTimeFrom(and_hms_opt(self, hour, min, 0).val))
        ELSE None

(***************************************************************************)
(* Parsing of HH:MM / HHMM strings.  A string is a sequence of characters. *)
(***************************************************************************)
Digits == {"0", "1", "2", "3", "4", "5", "6", "7", "8", "9"}

DigitValue(c) ==
    CASE c = "0" -> 0 [] c = "1" -> 1 [] c = "2" -> 2 [] c = "3" -> 3
      [] c = "4" -> 4 [] c = "5" -> 5 [] c = "6" -> 6 [] c = "7" -> 7
      [] c = "8" -> 8 [] c = "9" -> 9

\* str::parse::<u32> of a captured group of one or two digits
ParseU32(str) ==
    IF Len(str) = 1 THEN DigitValue(str[1])
    ELSE 10 * DigitValue(str[1]) + DigitValue(str[2])

\* The lengths of the prefixes of s that the alternatives of group 1,
\* ([0-9]|[01][0-9]|2[0-3]), match, in the order the regex tries them.
HourAlternatives(s) ==
    (IF Len(s) >= 1 /\ s[1] \in Digits THEN <<1>> ELSE <<>>)
    \o (IF Len(s) >= 2 /\ s[1] \in {"0", "1"} /\ s[2] \in Digits
        THEN <<2>> ELSE <<>>)
    \o (IF Len(s) >= 2 /\ s[1] = "2" /\ s[2] \in {"0", "1", "2", "3"}
        THEN <<2>> ELSE <<>>)

\* ([0-9][0-9])$ matched at position p of s
MinuteAtAnyDigits(s, p) ==
    /\ Len(s) = p + 1
    /\ s[p] \in Digits
    /\ s[p + 1] \in Digits

\* ([0-5][0-9])$ matched at position p of s
MinuteAt(s, p) ==
    /\ Len(s) = p + 1
    /\ s[p] \in {"0", "1", "2", "3", "4", "5"}
    /\ s[p + 1] \in Digits

\* :?([0-5][0-9])$ after an hour of length n: the position of the minute
\* group, or 0 when the rest of the pattern does not match there.
MinuteStart(s, n) ==
    IF Len(s) >= n + 1 /\ s[n + 1] = ":" /\ MinuteAt(s, n + 2) THEN n + 2
    ELSE IF MinuteAt(s, n + 1) THEN n + 1
    ELSE 0

\* parse_time_hm: ^([0-9]|[01][0-9]|2[0-3]):?([0-5][0-9])$
parse_time_hm(s) ==
    LET alts == HourAlternatives(s)
        good == {i \in 1..Len(alts) : MinuteStart(s, alts[i]) > 0}
    IN  IF good = {} THEN Err("invalid format")
        ELSE LET i == CHOOSE j \in good : \A k \in good : j <= k
                 n == alts[i]
                 p == MinuteStart(s, n)
             IN  Ok(<<ParseU32(SubSeq(s, 1, n)), ParseU32(SubSeq(s, p, p + 1))>>)

\* the time is put on the given date whatever the hour
parse_with_dateSameDay(date, time) ==
    LET hm == parse_time_hm(time)
    IN  IF ~hm.ok THEN hm
        ELSE Ok(TaskTimeFrom(and_hms_opt(date, hm.val[1], hm.val[2], 0).val))

\* TaskTime::parse_with_date
parse_with_date(date, time) ==
    LET centinel == from_hms_opt(5, 0, 0).val
        hm == parse_time_hm(time)
    IN  IF ~hm.ok THEN hm
        ELSE LET h == hm.val[1]
                 m == hm.val[2]
                 t == from_hms_opt(h, m, 0).val
             IN  IF TimeLt(t, centinel)
                 THEN Ok(TaskTimeFrom(and_time(checked_add_days(date, 1).val, t)))
                 ELSE Ok(TaskTimeFrom(and_hms_opt(date, h, m, 0).val))

(***************************************************************************)
(* The date and time operations applied to inputs from bounded sets.       *)
(* call is the operation applied with its arguments, ret its result; each  *)
(* behaviour is one call.                                                  *)
(***************************************************************************)
Alphabet == {"0", "1", "2", "3", "4", "5", "9", ":", "a"}

TimeStrings == UNION {[1..n -> Alphabet] : n \in 0..MaxStrLen}

InitDate ==
    /\ call = [op |-> "none"]
    /\ ret = None
    /\ db = EmptyDb

CallWorkingDateFrom ==
    /\ call.op = "none"
    /\ \E t \in TaskTimes :
        /\ call' = [op |-> "WorkingDate::from", t |-> t]
        /\ ret' = WorkingDateFrom(t)
        /\ UNCHANGED db

CallAndHmOpt ==
    /\ call.op = "none"
    /\ \E d \in Dates, h \in Hours, m \in Mins :
        /\ call' = [op |-> "and_hm_opt", date |-> d, hour |-> h, min |-> m]
        /\ ret' = and_hm_opt(d, h, m)
        /\ UNCHANGED db

CallParseWithDate ==
    /\ call.op = "none"
    /\ \E d \in Dates, s \in TimeStrings :
        /\ call' = [op |-> "parse_with_date", date |-> d, time |-> s]
        /\ ret' = parse_with_date(d, s)
        /\ UNCHANGED db

NextDate ==
    \/ CallWorkingDateFrom
    \/ CallAndHmOpt
    \/ CallParseWithDate

SpecDate == InitDate /\ [][NextDate]_vars

\* whether hour:min is a time of day before the 05:00 cutoff
BeforeCutoff(hour, min) == hour * 60 + min < 5 * 60

TaskTimeAt(date, hour, min) ==
    [date |-> date, hour |-> hour, min |-> min, sec |-> 0]

\* C1: WorkingDate::from(t) is the calendar date of t when the time of day
\* of t is 05:00 or later, and the day before when it is earlier.
C1_CutoffRule ==
    call.op = "WorkingDate::from" =>
        ret = IF BeforeCutoff(call.t.hour, call.t.min)
              THEN call.t.date - 1
              ELSE call.t.date

C1_Witness ==
    /\ call.op = "WorkingDate::from"
    /\ call.t.hour = 4 /\ call.t.min = 59
    /\ ret = call.t.date - 1

\* C2: WorkingDate::from and and_hm_opt are mutual inverses: from of
\* d.and_hm_opt(hour, min) is d for every valid hour and minute, and
\* from(t).and_hm_opt(hour of t, minute of t) is t.
C2_MutualInverses ==
    /\ (call.op = "and_hm_opt" /\ call.hour <= 23 /\ call.min <= 59) =>
            (ret.some /\ WorkingDateFrom(ret.val) = call.date)
    /\ call.op = "WorkingDate::from" =>
            and_hm_opt(ret, call.t.hour, call.t.min) = Some(call.t)

C2_Witness ==
    /\ call.op = "and_hm_opt"
    /\ call.hour = 4 /\ call.min = 59
    /\ ret.some /\ ret.val.date = call.date + 1
    /\ WorkingDateFrom(ret.val) = call.date

\* C3 as stated: from of d.and_hm_opt(4, 59) is d + 1 day, and from of
\* d.and_hm_opt(5, 0) is d.
C3_Original ==
    call.op = "and_hm_opt" =>
        /\ (call.hour = 4 /\ call.min = 59) =>
                WorkingDateFrom(ret.val) = call.date + 1
        /\ (call.hour = 5 /\ call.min = 0) =>
                WorkingDateFrom(ret.val) = call.date

\* C3 amended: d.and_hm_opt(4, 59) is 04:59 of calendar day d + 1 and its
\* working date is d; d.and_hm_opt(5, 0) is 05:00 of calendar day d and its
\* working date is d.
C3_BoundaryWorkingDate ==
    call.op = "and_hm_opt" =>
        /\ (call.hour = 4 /\ call.min = 59) =>
                /\ ret.some /\ ret.val.date = call.date + 1
                /\ WorkingDateFrom(ret.val) = call.date
        /\ (call.hour = 5 /\ call.min = 0) =>
                /\ ret.some /\ ret.val.date = call.date
                /\ WorkingDateFrom(ret.val) = call.date

C3_Witness ==
    /\ call.op = "and_hm_opt"
    /\ call.hour = 4 /\ call.min = 59
    /\ ret.some
    /\ WorkingDateFrom(ret.val) = call.date
    /\ WorkingDateFrom(ret.val) /= call.date + 1

\* C4: d.and_hm_opt(hour, min) is hour:min:00 of the calendar day after d
\* when hour:min is valid and before 05:00, of d itself when it is valid and
\* 05:00 or later, and None when hour > 23 or min > 59.
C4_AndHmOpt ==
    call.op = "and_hm_opt" =>
        IF call.hour <= 23 /\ call.min <= 59
        THEN ret = Some(TaskTimeAt(
                    IF BeforeCutoff(call.hour, call.min)
                    THEN call.date + 1 ELSE call.date,
                    call.hour, call.min))
        ELSE ret = None

C4_Witness ==
    /\ call.op = "and_hm_opt"
    /\ call.hour = 0 /\ call.min = 0
    /\ ret = Some(TaskTimeAt(call.date + 1, 0, 0))

\* C5: parse_with_date(d, s) succeeds exactly when parse_time_hm(s) does,
\* and then equals d.and_hm_opt(h, m); "0000" and "459" give the next
\* calendar day, "500" the same day.
C5_ParseWithDate ==
    call.op = "parse_with_date" =>
        LET hm == parse_time_hm(call.time)
        IN  /\ ret.ok <=> hm.ok
            /\ hm.ok => Some(ret.val) = and_hm_opt(call.date, hm.val[1], hm.val[2])
            /\ call.time = <<"0", "0", "0", "0">> =>
                    ret = Ok(TaskTimeAt(call.date + 1, 0, 0))
            /\ call.time = <<"4", "5", "9">> =>
                    ret = Ok(TaskTimeAt(call.date + 1, 4, 59))
            /\ call.time = <<"5", "0", "0">> =>
                    ret = Ok(TaskTimeAt(call.date, 5, 0))

C5_Witness ==
    /\ call.op = "parse_with_date"
    /\ call.time = <<"4", "5", "9">>
    /\ ret = Ok(TaskTimeAt(call.date + 1, 4, 59))

(***************************************************************************)
(* Task, TaskRecord and TaskSummary (core/src/task.rs)                     *)
(***************************************************************************)
\* Task::new
NewTask(id, level1, level2, level3, description, is_break, is_active) ==
    [id |-> id, task |-> <<level1, level2, level3>>,
     description |-> description, is_break |-> is_break,
     is_active |-> is_active]

\* TaskRecord::new
NewTaskRecord(id, task, working_date, begin, end) ==
    [id |-> id, task |-> task, working_date |-> working_date,
     begin |-> begin, end |-> end]

\* Iterator::flatten over the levels: the set levels, in level order
Flatten(levels) ==
    LET F[i \in 0..Len(levels)] ==
            IF i = 0 THEN <<>>
            ELSE IF levels[i].some THEN Append(F[i - 1], levels[i].val)
            ELSE F[i - 1]
    IN  F[Len(levels)]

\* [String]::join
Join(parts, sep) ==
    LET J[i \in 0..Len(parts)] ==
            IF i = 0 THEN ""
            ELSE IF i = 1 THEN parts[1]
            ELSE J[i - 1] \o sep \o parts[i]
    IN  J[Len(parts)]

\* Task::format_name
format_name(self, sep) == Join(Flatten(self.task), sep)

\* TaskRecord::is_break
is_break(self) == self.task.is_break

\* TaskRecord::duration; now is what TaskTime::now() returns to this call
duration(self, now) ==
    IF self.end.some
    THEN TaskTimeSub(self.end.val, self.begin)
    ELSE TaskTimeSub(now, self.begin)

\* Ord of TaskTime
TaskTimeLeq(a, b) == DateTimeGeq(b, a)

\* the value of a panic (unwrap of None)
Panic == [panic |-> TRUE]

\* The work records: value.iter().filter(|record| !record.is_break()),
\* as the indices of value they have
IsWork(record) == ~is_break(record)

work_records(value) ==
    LET F[i \in 0..Len(value)] ==
            IF i = 0 THEN <<>>
            ELSE IF IsWork(value[i]) THEN Append(F[i - 1], i)
            ELSE F[i - 1]
    IN  F[Len(value)]

\* the begin of the first work record
SummaryBeginFirst(value) == value[work_records(value)[1]].begin

\* work_records.map(|record| record.begin).min().unwrap()
SummaryBegin(value) ==
    LET work == work_records(value)
    IN  CHOOSE b \in {value[work[k]].begin : k \in 1..Len(work)} :
            \A k \in 1..Len(work) : TaskTimeLeq(b, value[work[k]].begin)

\* the greatest of the ends that are present
SummaryEndMax(value) ==
    LET work == work_records(value)
        ends == {value[work[k]].end.val :
                    k \in {j \in 1..Len(work) : value[work[j]].end.some}}
    IN  IF ends = {} THEN None
        ELSE Some(CHOOSE e \in ends : \A x \in ends : TaskTimeLeq(x, e))

\* work_records.map(|record| record.end).last().unwrap()
SummaryEnd(value) ==
    LET work == work_records(value)
    IN  value[work[Len(work)]].end

\* open records contribute nothing
SummaryTotalEndedOnly(value, now) ==
    LET work == work_records(value)
        total[k \in 0..Len(work)] ==
            IF k = 0 THEN 0
            ELSE IF value[work[k]].end.some
                 THEN total[k - 1] + duration(value[work[k]], now[1][work[k]])
                 ELSE total[k - 1]
    IN  total[Len(work)]

\* work_records.fold(TimeDelta::zero(), |acc, record| acc + record.duration());
\* now[1][i] is the value TaskTime::now() has when duration() is called on
\* value[i] here
SummaryTotal(value, now) ==
    LET work == work_records(value)
        total[k \in 0..Len(work)] ==
            IF k = 0 THEN 0
            ELSE total[k - 1] + duration(value[work[k]], now[1][work[k]])
    IN  total[Len(work)]

\* a name already in the map is overwritten instead of accumulated
InsertDurationOverwrite(acc, task_name, task_duration) ==
    IF task_name \in DOMAIN acc
    THEN [acc EXCEPT ![task_name] = task_duration]
    ELSE acc @@ (task_name :> task_duration)

\* the body of the task_durations loop: the duration is added to the entry
\* of the name when there is one, and inserted otherwise
InsertDuration(acc, task_name, task_duration) ==
    IF task_name \in DOMAIN acc
    THEN [acc EXCEPT ![task_name] = acc[task_name] + task_duration]
    ELSE acc @@ (task_name :> task_duration)

\* the task_durations loop over work_records; now[2][i] is the value
\* TaskTime::now() has when duration() is called on value[i] here
SummaryTaskDurations(value, now) ==
    LET work == work_records(value)
        durations[k \in 0..Len(work)] ==
            IF k = 0 THEN [x \in {} |-> 0]
            ELSE InsertDuration(durations[k - 1],
                                format_name(value[work[k]].task, "/"),
                                duration(value[work[k]], now[2][work[k]]))
    IN  durations[Len(work)]

\* the break records, the latest of the input first
SummaryBreakTimesReversed(value) ==
    LET F[i \in 0..Len(value)] ==
            IF i = 0 THEN <<>>
            ELSE IF is_break(value[i]) THEN <<value[i]>> \o F[i - 1]
            ELSE F[i - 1]
    IN  F[Len(value)]

\* value.iter().filter(|record| record.is_break()).cloned().collect()
SummaryBreakTimes(value) ==
    LET F[i \in 0..Len(value)] ==
            IF i = 0 THEN <<>>
            ELSE IF is_break(value[i]) THEN Append(F[i - 1], value[i])
            ELSE F[i - 1]
    IN  F[Len(value)]

\* impl From<&[TaskRecord]> for TaskSummary; min().unwrap() panics when
\* there is no work record
TaskSummaryFrom(value, now) ==
    IF Len(work_records(value)) = 0 THEN Panic
    ELSE [panic |-> FALSE,
          begin |-> SummaryBegin(value),
          end |-> SummaryEnd(value),
          total_duration |-> SummaryTotal(value, now),
          task_durations |-> SummaryTaskDurations(value, now),
          break_times |-> SummaryBreakTimes(value)]

(***************************************************************************)
(* TaskSummary::from applied to record lists from bounded sets.            *)
(***************************************************************************)
WorkTasks ==
    {NewTask(Some(1), Some("a"), None, None, "", FALSE, TRUE),
     NewTask(Some(2), None, Some("a"), None, "", FALSE, TRUE),
     NewTask(Some(3), Some("a"), None, Some("b"), "", FALSE, TRUE)}

BreakTask == NewTask(Some(4), Some("a"), None, None, "", TRUE, TRUE)

SampleDate == 1

\* <<begin, end>> of the work records and of the break records
WorkTimes ==
    {<<TaskTimeAt(SampleDate, 10, 0), Some(TaskTimeAt(SampleDate, 12, 0))>>,
     <<TaskTimeAt(SampleDate, 12, 0), Some(TaskTimeAt(SampleDate, 14, 0))>>,
     <<TaskTimeAt(SampleDate, 12, 0), None>>}

BreakTimes ==
    {<<TaskTimeAt(SampleDate, 9, 0), Some(TaskTimeAt(SampleDate, 10, 0))>>,
     <<TaskTimeAt(SampleDate, 12, 0), None>>}

\* the clock during one call: it may pass from Now0 to Now1 between two reads
Now0 == TaskTimeAt(SampleDate, 15, 0)
Now1 == TaskTimeAt(SampleDate, 15, 1)

SampleRecords ==
    {NewTaskRecord(None, t, SampleDate, x[1], x[2]) :
        t \in WorkTasks, x \in WorkTimes}
    \cup {NewTaskRecord(None, BreakTask, SampleDate, x[1], x[2]) :
            x \in BreakTimes}

RecordLists == UNION {[1..n -> SampleRecords] : n \in 0..MaxRecords}

\* the indices of value whose duration() reads the clock
ClockReaders(value) ==
    {i \in 1..Len(value) : IsWork(value[i]) /\ ~value[i].end.some}

\* The clock values seen by the 2 * Len(value) calls of duration(), made in
\* the order of the fold and then of the loop, when the clock passes to Now1
\* after the first tick reads.
ClockAfter(value, tick) ==
    LET readers == ClockReaders(value)
        ReadsBefore(pass, i) ==
            (IF pass = 2 THEN Cardinality(readers) ELSE 0)
            + Cardinality({j \in readers : j < i})
    IN  [pass \in 1..2 |->
            [i \in 1..Len(value) |->
                IF ReadsBefore(pass, i) >= tick THEN Now1 ELSE Now0]]

InitSummary ==
    /\ call = [op |-> "none"]
    /\ ret = None
    /\ db = EmptyDb

CallTaskSummaryFrom ==
    /\ call.op = "none"
    /\ \E value \in RecordLists :
        \E tick \in 0..(2 * Cardinality(ClockReaders(value))) :
            LET now == ClockAfter(value, tick)
            IN  /\ call' = [op |-> "TaskSummary::from", value |-> value, now |-> now]
                /\ ret' = TaskSummaryFrom(value, now)
                /\ UNCHANGED db

NextSummary == CallTaskSummaryFrom

SpecSummary == InitSummary /\ [][NextSummary]_vars

\* The indices of the work (non-break) records of a record list
WorkSet(value) == {i \in 1..Len(value) : ~value[i].task.is_break}

\* The sum of f[i] over the indices i of S
SumOver(S, f) ==
    LET Sum[T \in SUBSET S] ==
            IF T = {} THEN 0
            ELSE LET i == CHOOSE j \in T : TRUE
                 IN  f[i] + Sum[T \ {i}]
    IN  Sum[S]

\* The greatest of the ends present among the work records, if any
MaxPresentEnd(value) ==
    LET ended == {i \in WorkSet(value) : value[i].end.some}
    IN  IF ended = {} THEN None
        ELSE LET i == CHOOSE j \in ended :
                        \A k \in ended :
                            MinuteOf(value[k].end.val) <= MinuteOf(value[j].end.val)
             IN  value[i].end

\* The last work record of a record list, in input order
LastWork(value) ==
    CHOOSE i \in WorkSet(value) : \A k \in WorkSet(value) : k <= i

SummaryReturned == call.op = "TaskSummary::from" /\ ~ret.panic

C7_AbsentIfAnyOpen ==
    SummaryReturned =>
        IF \E i \in WorkSet(call.value) : ~call.value[i].end.some
        THEN ret.end = None
        ELSE ret.end = MaxPresentEnd(call.value)

\* C8: begin is the least begin among the work records, whatever the order
\* of the input and the begins of the break records.
C8_BeginIsMinimum ==
    SummaryReturned =>
        /\ \E i \in WorkSet(call.value) : ret.begin = call.value[i].begin
        /\ \A i \in WorkSet(call.value) :
                MinuteOf(ret.begin) <= MinuteOf(call.value[i].begin)

C8_Witness ==
    /\ SummaryReturned
    /\ \E i \in 1..Len(call.value) :
            /\ call.value[i].task.is_break
            /\ MinuteOf(call.value[i].begin) < MinuteOf(ret.begin)
    /\ \E i, j \in WorkSet(call.value) :
            /\ i < j
            /\ MinuteOf(call.value[j].begin) < MinuteOf(call.value[i].begin)
            /\ ret.begin = call.value[j].begin

\* The duration of record i of the call: end - begin when it has ended,
\* the clock value of that call of duration() - begin when it is open
ExpectedDuration(pass, i) ==
    LET r == call.value[i]
    IN  IF r.end.some
        THEN MinuteOf(r.end.val) - MinuteOf(r.begin)
        ELSE MinuteOf(call.now[pass][i]) - MinuteOf(r.begin)

\* C9: total_duration is the sum over the work records of end - begin for
\* an ended record and now - begin for an open one; break records add
\* nothing.
C9_TotalDuration ==
    SummaryReturned =>
        ret.total_duration =
            SumOver(WorkSet(call.value),
                    [i \in WorkSet(call.value) |-> ExpectedDuration(1, i)])

C9_Witness ==
    /\ SummaryReturned
    /\ \E i, j \in WorkSet(call.value), k \in 1..Len(call.value) :
            /\ ~call.value[i].end.some
            /\ call.value[j].end.some /\ ExpectedDuration(1, j) > 0
            /\ call.value[k].task.is_break
            /\ call.value[k].end.some /\ ExpectedDuration(1, k) > 0
            /\ ret.total_duration = ExpectedDuration(1, i) + ExpectedDuration(1, j)

\* The set levels of a task name joined by "/" in level order
JoinedLevels(levels) ==
    LET a == levels[1]
        b == levels[2]
        c == levels[3]
    IN  CASE a.some /\ b.some /\ c.some -> a.val \o "/" \o b.val \o "/" \o c.val
          [] a.some /\ b.some /\ ~c.some -> a.val \o "/" \o b.val
          [] a.some /\ ~b.some /\ c.some -> a.val \o "/" \o c.val
          [] ~a.some /\ b.some /\ c.some -> b.val \o "/" \o c.val
          [] a.some /\ ~b.some /\ ~c.some -> a.val
          [] ~a.some /\ b.some /\ ~c.some -> b.val
          [] ~a.some /\ ~b.some /\ c.some -> c.val
          [] OTHER -> ""

\* C10: the keys of task_durations are the formatted names of the work
\* records, each key maps to the sum of the durations of the work records
\* with that name whatever their task ids, break records add nothing, and
\* every permutation of the input (each record keeping its duration) gives
\* the same map.
C10_TaskDurations ==
    SummaryReturned =>
        LET value == call.value
            n == Len(value)
            Name(i) == JoinedLevels(value[i].task.task)
            Named(k) == {i \in WorkSet(value) : Name(i) = k}
        IN  /\ DOMAIN ret.task_durations = {Name(i) : i \in WorkSet(value)}
            /\ \A k \in DOMAIN ret.task_durations :
                    ret.task_durations[k] =
                        SumOver(Named(k), [i \in Named(k) |-> ExpectedDuration(2, i)])
            /\ \A p \in Permutations(1..n) :
                    SummaryTaskDurations(
                        [i \in 1..n |-> value[p[i]]],
                        [pass \in 1..2 |-> [i \in 1..n |-> call.now[pass][p[i]]]])
                    = ret.task_durations

C10_Witness ==
    /\ SummaryReturned
    /\ \E i, j \in WorkSet(call.value), k \in 1..Len(call.value) :
            /\ i /= j
            /\ call.value[i].task.id /= call.value[j].task.id
            /\ JoinedLevels(call.value[i].task.task) = "a"
            /\ JoinedLevels(call.value[j].task.task) = "a"
            /\ call.value[k].task.is_break
            /\ call.value[k].end.some /\ ExpectedDuration(2, k) > 0
            /\ ExpectedDuration(2, i) > 0 /\ ExpectedDuration(2, j) > 0
            /\ DOMAIN ret.task_durations = {"a"}
            /\ ret.task_durations["a"] = ExpectedDuration(2, i) + ExpectedDuration(2, j)

\* The test of the break filter, on a record as the caller holds it
BreakFlag(record) == record.task.is_break

\* C11: break_times is exactly the input records whose task has is_break
\* true, each unchanged and in input order; the records counted as work and
\* the records listed in break_times partition the input.
C11_BreakTimes ==
    SummaryReturned =>
        /\ ret.break_times = SelectSeq(call.value, BreakFlag)
        /\ LET work == work_records(call.value)
               counted == {work[k] : k \in 1..Len(work)}
               listed == {i \in 1..Len(call.value) :
                            \E k \in 1..Len(ret.break_times) :
                                ret.break_times[k] = call.value[i]}
           IN  /\ counted \cup listed = 1..Len(call.value)
               /\ counted \cap listed = {}
               /\ Len(work) + Len(ret.break_times) = Len(call.value)

C11_Witness ==
    /\ SummaryReturned
    /\ Len(call.value) = 3
    /\ BreakFlag(call.value[1]) /\ call.value[1].end.some
    /\ ~BreakFlag(call.value[2])
    /\ BreakFlag(call.value[3]) /\ ~call.value[3].end.some
    /\ ret.break_times = <<call.value[1], call.value[3]>>

(***************************************************************************)
(* The store (core/src/sqlite_db.rs) and the commands that write and read  *)
(* it (sgt/src/subcommand, sgt/src/table.rs).  A row of the records table  *)
(* holds the id of its task; ids are the positions of the rows, as         *)
(* AUTOINCREMENT gives them while no row is deleted.                       *)
(***************************************************************************)
\* the UPDATE writes the levels only
register_taskLevelsOnly(self, task) ==
    IF task.id.some
    THEN [self EXCEPT !.tasks =
            [i \in 1..Len(self.tasks) |->
                IF i = task.id.val
                THEN [self.tasks[i] EXCEPT !.task = task.task]
                ELSE self.tasks[i]]]
    ELSE [self EXCEPT !.tasks =
            Append(self.tasks,
                   [task EXCEPT !.id = Some(Len(self.tasks) + 1)])]

\* Manipulation::register_task: UPDATE of the row of task.id, or INSERT
register_task(self, task) ==
    IF task.id.some
    THEN [self EXCEPT !.tasks =
            [i \in 1..Len(self.tasks) |->
                IF i = task.id.val THEN task ELSE self.tasks[i]]]
    ELSE [self EXCEPT !.tasks =
            Append(self.tasks,
                   [task EXCEPT !.id = Some(Len(self.tasks) + 1)])]

\* unregister_task without its WHERE clause: every task is deactivated
unregister_taskEveryRow(self, id) ==
    [self EXCEPT !.tasks =
        [i \in 1..Len(self.tasks) |->
            [self.tasks[i] EXCEPT !.is_active = FALSE]]]

\* Manipulation::unregister_task: SET is_active = 0 WHERE id
unregister_task(self, id) ==
    [self EXCEPT !.tasks =
        [i \in 1..Len(self.tasks) |->
            IF i = id THEN [self.tasks[i] EXCEPT !.is_active = FALSE]
            ELSE self.tasks[i]]]

\* the columns add_record writes: task_id, working_date, begin, end
RecordRow(id, record) ==
    [id |-> id, task_id |-> record.task.id.val,
     working_date |-> record.working_date,
     begin |-> record.begin, end |-> record.end]

\* Manipulation::add_record: UPDATE of the row of record.id, or INSERT
add_record(self, record) ==
    IF record.id.some
    THEN [self EXCEPT !.records =
            [i \in 1..Len(self.records) |->
                IF i = record.id.val THEN RecordRow(i, record)
                ELSE self.records[i]]]
    ELSE [self EXCEPT !.records =
            Append(self.records, RecordRow(Len(self.records) + 1, record))]

\* the TaskRecord built from a row of records LEFT JOIN tasks
\* ON r.task_id = t.id: the task is the row the tasks table holds now
ReadRecord(self, row) ==
    NewTaskRecord(Some(row.id), self.tasks[row.task_id], row.working_date,
                  row.begin, row.end)

\* The orders ORDER BY working_date, begin may give to a set of rows (ids):
\* rows of equal working date and begin come in any order
OrderedByBegin(self, ids) ==
    {p \in [1..Cardinality(ids) -> ids] :
        /\ \A i, j \in 1..Cardinality(ids) : i # j => p[i] # p[j]
        /\ \A i, j \in 1..Cardinality(ids) :
                i < j =>
                    LET a == self.records[p[i]]
                        b == self.records[p[j]]
                    IN  \/ a.working_date < b.working_date
                        \/ /\ a.working_date = b.working_date
                           /\ TaskTimeLeq(a.begin, b.begin)}

\* Manipulation::records: the record lists the query may return
records(self) ==
    {[k \in 1..Len(p) |-> ReadRecord(self, self.records[p[k]])] :
        p \in OrderedByBegin(self, 1..Len(self.records))}

\* Manipulation::get_records_by_date: the record lists the query may return
get_records_by_date(self, date) ==
    LET ids == {i \in 1..Len(self.records) :
                    self.records[i].working_date = date}
    IN  {[k \in 1..Len(p) |-> ReadRecord(self, self.records[p[k]])] :
            p \in OrderedByBegin(self, ids)}

\* repository::State
Completed == [active |-> FALSE]
Active(record) == [active |-> TRUE, record |-> record]

\* Manipulation::current_state: the states the query may return; the row is
\* one of the greatest begin of the date (ORDER BY begin DESC LIMIT 1)
current_state(self, date) ==
    LET ids == {i \in 1..Len(self.records) :
                    self.records[i].working_date = date}
        latest == {i \in ids :
                    \A j \in ids : TaskTimeLeq(self.records[j].begin,
                                               self.records[i].begin)}
    IN  IF ids = {} THEN {Completed}
        ELSE {IF self.records[i].end.some THEN Completed
              ELSE Active(ReadRecord(self, self.records[i])) : i \in latest}

\* The place of a level in ORDER BY: NULL first, then the strings in order
LevelOrder(level) ==
    IF ~level.some THEN 0
    ELSE CASE level.val = "a" -> 1 [] level.val = "b" -> 2
           [] level.val = "c" -> 3 [] OTHER -> 4

\* ORDER BY level1, level2, level3
TaskLeq(t, u) ==
    LET a == [i \in 1..3 |-> LevelOrder(t.task[i])]
        b == [i \in 1..3 |-> LevelOrder(u.task[i])]
    IN  \/ a[1] < b[1]
        \/ a[1] = b[1] /\ a[2] < b[2]
        \/ a[1] = b[1] /\ a[2] = b[2] /\ a[3] <= b[3]

\* Manipulation::tasks: the task lists the query may return, every task of
\* the table, active or not
tasks(self) ==
    LET n == Len(self.tasks)
    IN  {[k \in 1..n |-> self.tasks[p[k]]] :
            p \in {q \in [1..n -> 1..n] :
                    /\ \A i, j \in 1..n : i # j => q[i] # q[j]
                    /\ \A i, j \in 1..n :
                        i < j => TaskLeq(self.tasks[q[i]], self.tasks[q[j]])}}

\* the key util::map_tasks gives a task
TaskKey(task) ==
    IF task.description # ""
    THEN format_name(task, "/") \o " - " \o task.description
    ELSE format_name(task, "/")

\* util::map_tasks: HashMap::insert keeps the last task of a key
map_tasks(list) ==
    [key \in {TaskKey(list[i]) : i \in 1..Len(list)} |->
        LET same == {i \in 1..Len(list) : TaskKey(list[i]) = key}
        IN  list[CHOOSE i \in same : \A j \in same : j <= i]]

\* the keys util::map_tasks returns beside the map: one of each task, in
\* the order of the list; they are the candidates of the select prompts
task_names(list) == [k \in 1..Len(list) |-> TaskKey(list[k])]

\* the key util::map_records gives a record: working date, begin and end as
\* HH:MM (the hour and minute), and the task name
RecordKey(record) ==
    <<record.working_date, record.begin.hour, record.begin.min,
      IF record.end.some
      THEN Some(<<record.end.val.hour, record.end.val.min>>) ELSE None,
      format_name(record.task, "/")>>

\* util::map_records: HashMap::insert keeps the last record of a key
map_records(list) ==
    [key \in {RecordKey(list[i]) : i \in 1..Len(list)} |->
        LET same == {i \in 1..Len(list) : RecordKey(list[i]) = key}
        IN  list[CHOOSE i \in same : \A j \in same : j <= i]]

\* the result Ok(()) of a command
Done == Ok(<<>>)

\* What a table function returns: "" (empty) or a table (not empty)
Table(empty) == [panic |-> FALSE, empty |-> empty]

\* table::task_summary; the clock does not change which of the three
\* outcomes it has
task_summary(list) ==
    IF Len(list) = 0 THEN Table(TRUE)
    ELSE LET summary == TaskSummaryFrom(list, ClockAfter(list, 0))
         IN  IF summary.panic THEN Panic
             ELSE IF DOMAIN summary.task_durations = {} THEN Table(TRUE)
             ELSE Table(FALSE)

\* table::task_durations
task_durations(list) ==
    IF Len(list) = 0 THEN Table(TRUE)
    ELSE LET summary == TaskSummaryFrom(list, ClockAfter(list, 0))
         IN  IF summary.panic THEN Panic
             ELSE IF DOMAIN summary.task_durations = {} THEN Table(TRUE)
             ELSE Table(FALSE)

\* table::break_times
break_times(list) ==
    IF Len(list) = 0 THEN Table(TRUE)
    ELSE LET summary == TaskSummaryFrom(list, ClockAfter(list, 0))
         IN  IF summary.panic THEN Panic
             ELSE IF Len(summary.break_times) = 0 THEN Table(TRUE)
             ELSE Table(FALSE)

\* subcommand::log::run for one date: the three tables of the report, or
\* the panic of the first of them that panics
log_run(list) ==
    LET shown == <<task_summary(list), task_durations(list),
                   break_times(list)>>
    IN  IF \E k \in 1..3 : shown[k].panic THEN Panic
        ELSE [panic |-> FALSE, tables |-> shown]

\* start.rs 35-40 without the write of the running record
start_writeInsertOnly(self, state, task, date, begin) ==
    add_record(self, NewTaskRecord(None, task, date, begin, None))

\* start.rs 35-40: the running record, if any, gets the begin as its end;
\* then the new open record is inserted
start_write(self, state, task, date, begin) ==
    LET closed == IF state.active
                  THEN add_record(self, [state.record EXCEPT
                                            !.end = Some(begin)])
                  ELSE self
    IN  add_record(closed, NewTaskRecord(None, task, date, begin, None))

(***************************************************************************)
(* The commands as steps of one store.  The user's entries come from small *)
(* sets: one working date, three texts for a time, the tasks below.        *)
(***************************************************************************)
StoreDates == {SampleDate}

\* the texts typed at a time prompt
TimeTexts == {<<"0", "9", "0", "0">>, <<"1", "0", ":", "0", "0">>, <<"a">>}

\* A prompt left without an entry (Err of the prompt), or the text entered
Entries == {None} \cup {Some(text) : text \in TimeTexts}

\* the entries at the begin and end prompts of fix: a text that is no time
\* is entered at one prompt, the other being left
FixEntries ==
    {x \in Entries \X Entries :
        \A k \in 1..2 :
            x[k] = Some(<<"a">>) => x[3 - k] = None}

\* the tasks registered as new, in this order
NewTasks ==
    <<NewTask(None, Some("a"), None, None, "", FALSE, TRUE),
      NewTask(None, Some("b"), None, None, "", TRUE, TRUE)>>

\* the update of the first task: new name, description and break flag
UpdatedTask == NewTask(Some(1), Some("c"), None, None, "d", TRUE, TRUE)

\* the task unregistered: the first
UnregisteredIds == {1}

\* the texts typed at a time prompt in the working day below: a time
\* before the 05:00 cutoff, a time after it, and a text that is no time
DayTexts == {<<"0", "3", "0", "0">>, <<"0", "9", "0", "0">>, <<"a">>}

\* TaskTime::parse_with_date of each text, for each date
ParsedTimes ==
    [date \in StoreDates, text \in TimeTexts \cup DayTexts |->
        parse_with_date(date, text)]

InitStore ==
    /\ call = [op |-> "none"]
    /\ ret = None
    /\ db = EmptyDb

\* Manipulation::register_task, with a new task or with an update
RegisterTask ==
    \E task \in {NewTasks[i] : i \in {Len(db.tasks) + 1} \cap DOMAIN NewTasks}
                \cup {t \in {UpdatedTask} : t.id.val <= Len(db.tasks)} :
        /\ db' = register_task(db, task)
        /\ call' = [op |-> "register_task", task |-> task]
        /\ ret' = Done

\* Manipulation::unregister_task
UnregisterTask ==
    \E id \in UnregisteredIds \cap 1..Len(db.tasks) :
        /\ db' = unregister_task(db, id)
        /\ call' = [op |-> "unregister_task", id |-> id]
        /\ ret' = Done

\* subcommand::start::run.  dates holds the outcomes of the date argument
\* (WorkingDate::parse of it, or WorkingDate::today() without one), texts
\* the entries at the begin prompt; rows bounds the records table.
StartWith(dates, texts, rows) ==
    /\ Len(db.records) < rows
    /\ \E parsed \in dates :
        IF ~parsed.ok
        THEN /\ call' = [op |-> "start"]
             /\ ret' = parsed
             /\ db' = db
        ELSE \E text \in texts :
              \E state \in current_state(db, parsed.val), list \in tasks(db) :
                \E key \in DOMAIN map_tasks(list) :
                    LET date == parsed.val
                        task == map_tasks(list)[key]
                        begin == ParsedTimes[date, text]
                    IN  /\ call' = [op |-> "start", date |-> date,
                                     task_names |-> task_names(list)]
                        /\ IF ~begin.ok
                           THEN ret' = begin /\ db' = db
                           ELSE /\ ret' = Done
                                /\ db' = start_write(db, state, task, date,
                                                     begin.val)

\* subcommand::end::run
EndWith(dates, texts) ==
    \E parsed \in dates :
        IF ~parsed.ok
        THEN /\ call' = [op |-> "end"]
             /\ ret' = parsed
             /\ db' = db
        ELSE \E text \in texts :
              \E state \in current_state(db, parsed.val) :
                LET date == parsed.val
                    end == ParsedTimes[date, text]
                IN  /\ call' = [op |-> "end", date |-> date]
                    /\ IF ~state.active THEN ret' = Done /\ db' = db
                       ELSE IF ~end.ok THEN ret' = end /\ db' = db
                       ELSE IF ~TaskTimeLeq(state.record.begin, end.val)
                       THEN ret' = Panic /\ db' = db
                       ELSE /\ ret' = Done
                            /\ db' = add_record(db,
                                        [state.record EXCEPT
                                            !.end = Some(end.val)])

\* fix.rs 29-42 with the begin stored before the end is parsed
fix_writeBeginFirst(self, date, record, begin_time, end_time) ==
    LET begin == IF begin_time.some THEN ParsedTimes[date, begin_time.val]
                 ELSE Ok(record.begin)
        end == IF end_time.some THEN ParsedTimes[date, end_time.val]
               ELSE Ok(0)
    IN  IF ~begin.ok THEN [ret |-> begin, db |-> self]
        ELSE IF ~end.ok
        THEN [ret |-> end,
              db |-> add_record(self, [record EXCEPT !.begin = begin.val])]
        ELSE [ret |-> Done,
              db |-> add_record(self,
                        [record EXCEPT
                            !.begin = begin.val,
                            !.end = IF end_time.some THEN Some(end.val)
                                    ELSE record.end])]

\* fix.rs 29-42: the entries are parsed, an entry that is no time ends the
\* command with its error, and the record is stored after both; a prompt
\* left without an entry (None) keeps the field
fix_write(self, date, record, begin_time, end_time) ==
    LET begin == IF begin_time.some THEN ParsedTimes[date, begin_time.val]
                 ELSE Ok(record.begin)
        end == IF end_time.some THEN ParsedTimes[date, end_time.val]
               ELSE Ok(0)
    IN  IF ~begin.ok THEN [ret |-> begin, db |-> self]
        ELSE IF ~end.ok THEN [ret |-> end, db |-> self]
        ELSE [ret |-> Done,
              db |-> add_record(self,
                        [record EXCEPT
                            !.begin = begin.val,
                            !.end = IF end_time.some THEN Some(end.val)
                                    ELSE record.end])]

\* subcommand::fix::run
FixWith(dates, entries) ==
    \E parsed \in dates :
        IF ~parsed.ok
        THEN /\ call' = [op |-> "fix"]
             /\ ret' = parsed
             /\ db' = db
        ELSE \E list \in get_records_by_date(db, parsed.val) :
              \E record \in {map_records(list)[key] :
                                key \in DOMAIN map_records(list)} :
                \E entry \in entries :
                    LET date == parsed.val
                        result == fix_write(db, date, record, entry[1],
                                            entry[2])
                    IN  /\ call' = [op |-> "fix", date |-> date]
                        /\ ret' = result.ret
                        /\ db' = result.db

\* the commands without a date argument: the date is WorkingDate::today()
Today_s == {Ok(date) : date \in StoreDates}

Start == StartWith(Today_s, TimeTexts, MaxRows)

End == EndWith(Today_s, TimeTexts)

Fix == FixWith(Today_s, FixEntries)

\* subcommand::log::run with a date
Log ==
    \E date \in StoreDates :
        \E list \in get_records_by_date(db, date) :
            /\ call' = [op |-> "log", date |-> date]
            /\ ret' = log_run(list)
            /\ db' = db

NextStore ==
    \/ RegisterTask
    \/ UnregisterTask
    \/ Start
    \/ End
    \/ Fix
    \/ Log

SpecStore == InitStore /\ [][NextStore]_vars

\* C12: the report of a working date never panics: whatever records start,
\* end and fix have stored for the date, also break records only, log ends
\* without calling TaskSummary::from on a list that has no work record.
C12_ReportNeverPanics ==
    call.op = "log" => ~ret.panic

\* C13: no stored record has an end earlier than its begin.
C13_EndNotBeforeBegin ==
    \A i \in 1..Len(db.records) :
        db.records[i].end.some =>
            TaskTimeLeq(db.records[i].begin, db.records[i].end.val)

\* a step of register_task or unregister_task
TaskChanged == call'.op \in {"register_task", "unregister_task"}

\* C14 as stated: a record keeps the task as it was when the record was
\* written: a change of the tasks table changes no record read back.
C14_Original ==
    [][TaskChanged => records(db') = records(db)]_vars

\* C14 amended: a stored record holds the id of its task only.  A change of
\* the tasks table leaves the rows of the records table as they are, and
\* every record reads back with the fields its task has after the change:
\* those given to register_task, or is_active false after unregister_task.
C14_RecordsReadCurrentTask ==
    [][TaskChanged =>
        /\ db'.records = db.records
        /\ \A list \in records(db') :
            /\ Len(list) = Len(db.records)
            /\ \A k \in 1..Len(list) :
                LET id == list[k].task.id
                    old == db.tasks[id.val]
                    row == db.records[list[k].id.val]
                IN  /\ id = Some(row.task_id)
                    /\ list[k].working_date = row.working_date
                    /\ list[k].begin = row.begin
                    /\ list[k].end = row.end
                    /\ list[k].task =
                        IF call'.op = "register_task" /\ call'.task.id = id
                        THEN call'.task
                        ELSE IF call'.op = "unregister_task"
                                /\ Some(call'.id) = id
                        THEN [old EXCEPT !.is_active = FALSE]
                        ELSE old]_vars

C14_Witness ==
    /\ call.op = "register_task"
    /\ call.task = UpdatedTask
    /\ \E i \in 1..Len(db.records) : db.records[i].task_id = 1
    /\ \E i \in 1..Len(db.records) : db.records[i].task_id = 2
    /\ \A list \in records(db) :
        \A k \in 1..Len(list) :
            list[k].task = IF list[k].task.id = Some(1) THEN UpdatedTask
                           ELSE [NewTasks[2] EXCEPT !.id = Some(2)]

\* C15: start supersedes the running record.  When the latest record of
\* the date is open, it gets the new begin as its end and a new open record
\* is inserted; when there is no record or the latest has ended, the new
\* open record is inserted and no stored record is modified.
C15_StartSupersedes ==
    [][call'.op = "start" /\ ret'.ok =>
        LET n == Len(db.records)
            ids == {i \in 1..n : db.records[i].working_date = call'.date}
            latest == {i \in ids :
                        \A j \in ids :
                            MinuteOf(db.records[j].begin)
                                <= MinuteOf(db.records[i].begin)}
            new == db'.records[n + 1]
        IN  /\ Len(db'.records) = n + 1
            /\ new.id = n + 1
            /\ new.working_date = call'.date
            /\ new.end = None
            /\ \/ /\ ids = {} \/ \E i \in latest : db.records[i].end.some
                  /\ SubSeq(db'.records, 1, n) = db.records
               \/ \E i \in latest :
                    /\ ~db.records[i].end.some
                    /\ SubSeq(db'.records, 1, n) =
                        [db.records EXCEPT ![i].end = Some(new.begin)]]_vars

C15_Witness ==
    /\ call.op = "start" /\ ret.ok
    /\ Len(db.records) = 2
    /\ db.records[1].end = Some(db.records[2].begin)
    /\ MinuteOf(db.records[1].begin) < MinuteOf(db.records[2].begin)
    /\ db.records[2].end = None

(***************************************************************************)
(* Calendar dates.  The day number of a NaiveDate is its number of days    *)
(* from 0000-12-31 (0001-01-01 is day 1) in the proleptic Gregorian        *)
(* calendar, which is the calendar of chrono.                              *)
(***************************************************************************)
IsLeapYear(year) ==
    year % 4 = 0 /\ (year % 100 # 0 \/ year % 400 = 0)

\* February has 28 days in every year
DaysInMonthNoLeap(year, month) ==
    CASE month \in {4, 6, 9, 11} -> 30
      [] month = 2 -> 28
      [] OTHER -> 31

\* the number of days of a month of a year
DaysInMonth(year, month) ==
    CASE month \in {4, 6, 9, 11} -> 30
      [] month = 2 -> IF IsLeapYear(year) THEN 29 ELSE 28
      [] OTHER -> 31

\* the number of days of the years 1 .. year - 1
DaysBeforeYear(year) ==
    LET y == year - 1
    IN  365 * y + (y \div 4) - (y \div 100) + (y \div 400)

\* the number of days of the months 1 .. month - 1 of a year
DaysBeforeMonth(year, month) ==
    LET before[m \in 1..12] ==
            IF m = 1 THEN 0 ELSE before[m - 1] + DaysInMonth(year, m - 1)
    IN  before[month]

\* NaiveDate::from_ymd_opt
from_ymd_opt(year, month, day) ==
    IF month \in 1..12 /\ day \in 1..DaysInMonth(year, month)
    THEN Some(DaysBeforeYear(year) + DaysBeforeMonth(year, month) + day)
    ELSE None

\* Datelike::year, month and day of a NaiveDate
YearOf(date) ==
    CHOOSE y \in (date \div 366)..((date \div 365) + 1) :
        DaysBeforeYear(y) < date /\ date <= DaysBeforeYear(y + 1)

MonthOf(date) ==
    LET y == YearOf(date)
        ordinal == date - DaysBeforeYear(y)
    IN  CHOOSE m \in 1..12 :
            /\ DaysBeforeMonth(y, m) < ordinal
            /\ ordinal <= DaysBeforeMonth(y, m) + DaysInMonth(y, m)

DayOf(date) ==
    LET y == YearOf(date)
    IN  date - DaysBeforeYear(y) - DaysBeforeMonth(y, MonthOf(date))

\* the date thirty days later
checked_add_monthsThirtyDays(date, months) == Some(date + 30 * months)

\* NaiveDate::checked_add_months: the same day of the month, months later,
\* or the last day of that month when it is shorter
checked_add_months(date, months) ==
    LET total == (MonthOf(date) - 1) + months
        y == YearOf(date) + (total \div 12)
        m == (total % 12) + 1
        d == IF DayOf(date) <= DaysInMonth(y, m) THEN DayOf(date)
             ELSE DaysInMonth(y, m)
    IN  from_ymd_opt(y, m, d)

(***************************************************************************)
(* Parsing of dates and year-months (core/src/datetime.rs 150-168,         *)
(* 203-228).                                                               *)
(***************************************************************************)
\* str::parse of a captured group of digits
ParseNumber(str) ==
    LET value[i \in 0..Len(str)] ==
            IF i = 0 THEN 0 ELSE 10 * value[i - 1] + DigitValue(str[i])
    IN  value[Len(str)]

\* [0-9]{4} matched at the start of s
YearAtStart(s) ==
    Len(s) >= 4 /\ \A i \in 1..4 : s[i] \in Digits

\* any two digits at position p of s
MonthAtAnyDigits(s, p) ==
    /\ Len(s) >= p + 1
    /\ s[p] \in Digits
    /\ s[p + 1] \in Digits

\* (0[1-9]|1[0-2]) matched at position p of s
MonthAt(s, p) ==
    /\ Len(s) >= p + 1
    /\ \/ s[p] = "0" /\ s[p + 1] \in Digits \ {"0"}
       \/ s[p] = "1" /\ s[p + 1] \in {"0", "1", "2"}

\* (0[1-9]|[12][0-9]|3[01])$ matched at position p of s
DayAt(s, p) ==
    /\ Len(s) = p + 1
    /\ \/ s[p] = "0" /\ s[p + 1] \in Digits \ {"0"}
       \/ s[p] \in {"1", "2"} /\ s[p + 1] \in Digits
       \/ s[p] = "3" /\ s[p + 1] \in {"0", "1"}

\* -?(0[1-9]|[12][0-9]|3[01])$ at position p: the position of the day
\* group, or 0 when the rest of the pattern does not match there
DayStart(s, p) ==
    IF Len(s) >= p /\ s[p] = "-" /\ DayAt(s, p + 1) THEN p + 1
    ELSE IF DayAt(s, p) THEN p
    ELSE 0

\* The positions at which the month group may start, in the order the regex
\* tries them: after (([0-9]{4})-?)? matched with the hyphen, matched
\* without it, and not matched
MonthStarts(s) ==
    (IF YearAtStart(s) /\ Len(s) >= 5 /\ s[5] = "-" THEN <<6>> ELSE <<>>)
    \o (IF YearAtStart(s) THEN <<5>> ELSE <<>>)
    \o <<1>>

\* parse_date; year_now is Local::now().year()
parse_date(s, year_now) ==
    LET starts == MonthStarts(s)
        good == {i \in 1..Len(starts) :
                    MonthAt(s, starts[i]) /\ DayStart(s, starts[i] + 2) > 0}
    IN  IF good = {} THEN Err("invalid format")
        ELSE LET i == CHOOSE j \in good : \A k \in good : j <= k
                 q == starts[i]
                 p == DayStart(s, q + 2)
                 y == IF q > 1 THEN ParseNumber(SubSeq(s, 1, 4)) ELSE year_now
             IN  Ok(<<y, ParseNumber(SubSeq(s, q, q + 1)),
                      ParseNumber(SubSeq(s, p, p + 1))>>)

\* parse_yearmonth: ^([0-9]{4})-?(0[1-9]|1[0-2])$
parse_yearmonth(s) ==
    LET q == IF Len(s) >= 5 /\ s[5] = "-" THEN 6 ELSE 5
    IN  IF YearAtStart(s) /\ MonthAt(s, q) /\ Len(s) = q + 1
        THEN Ok(<<ParseNumber(SubSeq(s, 1, 4)),
                  ParseNumber(SubSeq(s, q, q + 1))>>)
        ELSE Err("invalid format")

\* WorkingDate::parse
WorkingDateParse(s, year_now) ==
    LET ymd == parse_date(s, year_now)
    IN  IF ~ymd.ok THEN ymd
        ELSE LET date == from_ymd_opt(ymd.val[1], ymd.val[2], ymd.val[3])
             IN  IF date.some THEN Ok(date.val) ELSE Err("invalid date")

\* WorkingDate::parse_ym; an unwrap of None is a panic
parse_ym(s) ==
    LET ym == parse_yearmonth(s)
    IN  IF ~ym.ok THEN ym
        ELSE LET first == from_ymd_opt(ym.val[1], ym.val[2], 1)
                 next == IF first.some THEN checked_add_months(first.val, 1)
                         ELSE None
                 last == IF next.some THEN pred_opt(next.val) ELSE None
             IN  IF first.some /\ last.some
                 THEN Ok(<<first.val, last.val>>)
                 ELSE Panic

(***************************************************************************)
(* The parsers applied to strings from bounded sets; each behaviour is one *)
(* call.  A date string is put together from a year part, a month part and *)
(* a day part, with or without hyphens.                                    *)
(***************************************************************************)
YearTexts ==
    {<<>>, <<"2", "0", "2", "0">>, <<"2", "0", "2", "1">>,
     <<"2", "0", "0", "0">>, <<"1", "9", "0", "0">>, <<"2", "0", "2">>,
     <<"a">>}

Hyphens == {<<>>, <<"-">>}

TwoDigits == [1..2 -> {"0", "1", "2", "3", "4", "9"}]

DateStrings ==
    {y \o h1 \o m \o h2 \o d :
        y \in YearTexts, h1 \in Hyphens, m \in TwoDigits, h2 \in Hyphens,
        d \in TwoDigits}

YearMonthStrings ==
    {y \o h \o m \o x :
        y \in YearTexts, h \in Hyphens, m \in TwoDigits,
        x \in {<<>>, <<"1">>}}

\* the values of Local::now().year()
YearsNow == {2020, 2021}

InitParse ==
    /\ call = [op |-> "none"]
    /\ ret = None
    /\ db = EmptyDb

CallParseTimeHm ==
    /\ call.op = "none"
    /\ \E s \in TimeStrings :
        /\ call' = [op |-> "parse_time_hm", s |-> s]
        /\ ret' = parse_time_hm(s)
        /\ UNCHANGED db

CallParseDate ==
    /\ call.op = "none"
    /\ \E s \in DateStrings, year_now \in YearsNow :
        /\ call' = [op |-> "parse_date", s |-> s, year_now |-> year_now]
        /\ ret' = parse_date(s, year_now)
        /\ UNCHANGED db

CallWorkingDateParse ==
    /\ call.op = "none"
    /\ \E s \in DateStrings, year_now \in YearsNow :
        /\ call' = [op |-> "WorkingDate::parse", s |-> s,
                    year_now |-> year_now]
        /\ ret' = WorkingDateParse(s, year_now)
        /\ UNCHANGED db

CallParseYm ==
    /\ call.op = "none"
    /\ \E s \in YearMonthStrings :
        /\ call' = [op |-> "parse_ym", s |-> s]
        /\ ret' = parse_ym(s)
        /\ UNCHANGED db

NextParse ==
    \/ CallParseTimeHm
    \/ CallParseDate
    \/ CallWorkingDateParse
    \/ CallParseYm

SpecParse == InitParse /\ [][NextParse]_vars

\* whether the characters a .. b of s are all digits
AllDigits(s, a, b) == \A i \in a..b : s[i] \in Digits

\* the number written by the digits a .. b of s
NumberAt(s, a, b) ==
    LET n[i \in (a - 1)..b] ==
            IF i = a - 1 THEN 0 ELSE 10 * n[i - 1] + DigitValue(s[i])
    IN  n[b]

\* The hour and minute written in a string of the form HMM, HHMM, H:MM or
\* HH:MM, or <<>> when the string has none of these forms
HourMinuteWritten(s) ==
    CASE Len(s) = 3 /\ AllDigits(s, 1, 3) ->
            <<NumberAt(s, 1, 1), NumberAt(s, 2, 3)>>
      [] Len(s) = 4 /\ AllDigits(s, 1, 4) ->
            <<NumberAt(s, 1, 2), NumberAt(s, 3, 4)>>
      [] Len(s) = 4 /\ s[2] = ":" /\ AllDigits(s, 1, 1) /\ AllDigits(s, 3, 4) ->
            <<NumberAt(s, 1, 1), NumberAt(s, 3, 4)>>
      [] Len(s) = 5 /\ s[3] = ":" /\ AllDigits(s, 1, 2) /\ AllDigits(s, 4, 5) ->
            <<NumberAt(s, 1, 2), NumberAt(s, 4, 5)>>
      [] OTHER -> <<>>

\* C16: parse_time_hm succeeds exactly on the strings of the form H:MM,
\* HH:MM, HMM or HHMM whose hour is 0 to 23 and whose minute is 00 to 59,
\* and returns that hour and minute (three digits are H and MM, four digits
\* HH and MM); every other string is an error.
C16_ParseTimeHm ==
    call.op = "parse_time_hm" =>
        LET hm == HourMinuteWritten(call.s)
        IN  IF hm # <<>> /\ hm[1] <= 23 /\ hm[2] <= 59
            THEN ret = Ok(hm)
            ELSE ret = Err("invalid format")

C16_Witness ==
    /\ call.op = "parse_time_hm"
    /\ call.s = <<"4", "5", "9">>
    /\ ret = Ok(<<4, 59>>)

\* The year (absent when not written), month and day written in a string
\* of the form MMDD, MM-DD, YYYYMMDD, YYYY-MM-DD, YYYY-MMDD or YYYYMM-DD, or
\* <<>> when the string has none of these forms
DateWritten(s) ==
    CASE Len(s) = 4 /\ AllDigits(s, 1, 4) ->
            <<None, NumberAt(s, 1, 2), NumberAt(s, 3, 4)>>
      [] Len(s) = 5 /\ s[3] = "-" /\ AllDigits(s, 1, 2) /\ AllDigits(s, 4, 5) ->
            <<None, NumberAt(s, 1, 2), NumberAt(s, 4, 5)>>
      [] Len(s) = 8 /\ AllDigits(s, 1, 8) ->
            <<Some(NumberAt(s, 1, 4)), NumberAt(s, 5, 6), NumberAt(s, 7, 8)>>
      [] Len(s) = 10 /\ s[5] = "-" /\ s[8] = "-" /\ AllDigits(s, 1, 4)
            /\ AllDigits(s, 6, 7) /\ AllDigits(s, 9, 10) ->
            <<Some(NumberAt(s, 1, 4)), NumberAt(s, 6, 7), NumberAt(s, 9, 10)>>
      [] Len(s) = 9 /\ s[5] = "-" /\ AllDigits(s, 1, 4) /\ AllDigits(s, 6, 9) ->
            <<Some(NumberAt(s, 1, 4)), NumberAt(s, 6, 7), NumberAt(s, 8, 9)>>
      [] Len(s) = 9 /\ s[7] = "-" /\ AllDigits(s, 1, 6) /\ AllDigits(s, 8, 9) ->
            <<Some(NumberAt(s, 1, 4)), NumberAt(s, 5, 6), NumberAt(s, 8, 9)>>
      [] OTHER -> <<>>

\* the date written, with the current year when the string has no year
DateMeant(s, year_now) ==
    LET w == DateWritten(s)
    IN  <<IF w[1].some THEN w[1].val ELSE year_now, w[2], w[3]>>

\* C17: parse_date accepts YYYY-MM-DD, YYYYMMDD, MM-DD and MMDD with month
\* 01 to 12 and day 01 to 31 and returns the year, month and day written,
\* the current local year when the year is not written; a string whose
\* month is outside 01 to 12 or whose day is outside 01 to 31 is an error.
C17_ParseDate ==
    call.op = "parse_date" =>
        LET w == DateWritten(call.s)
        IN  /\ w # <<>> /\ w[2] \in 1..12 /\ w[3] \in 1..31 =>
                ret = Ok(DateMeant(call.s, call.year_now))
            /\ w # <<>> /\ ~(w[2] \in 1..12 /\ w[3] \in 1..31) =>
                ret = Err("invalid format")
            /\ ret.ok => w # <<>>

C17_Witness ==
    /\ call.op = "parse_date"
    /\ call.s = <<"1", "2", "3", "1">>
    /\ call.year_now = 2021
    /\ ret = Ok(<<2021, 12, 31>>)

\* whether year-month-day is a day of the calendar
RealDay(year, month, day) ==
    /\ month \in 1..12
    /\ day >= 1
    /\ day <= (IF month \in {4, 6, 9, 11} THEN 30
               ELSE IF month # 2 THEN 31
               ELSE IF year % 400 = 0 \/ (year % 4 = 0 /\ year % 100 # 0)
               THEN 29 ELSE 28)

\* C18: for a string that passes the date pattern, WorkingDate::parse is an
\* error when the string names no day of the calendar (February 30, day 31
\* of a 30-day month, February 29 of a non-leap year), and returns the date
\* of that year, month and day when it names one.
C18_WorkingDateParse ==
    call.op = "WorkingDate::parse" =>
        LET w == DateWritten(call.s)
            d == DateMeant(call.s, call.year_now)
        IN  IF w = <<>> \/ ~(w[2] \in 1..12 /\ w[3] \in 1..31)
            THEN ret = Err("invalid format")
            ELSE IF RealDay(d[1], d[2], d[3])
            THEN /\ ret.ok
                 /\ <<YearOf(ret.val), MonthOf(ret.val), DayOf(ret.val)>> = d
                 /\ ret.val - DaysBeforeYear(d[1]) \in 1..366
            ELSE ret = Err("invalid date")

C18_Witness ==
    /\ call.op = "WorkingDate::parse"
    /\ call.s = <<"0", "2", "-", "2", "9">>
    /\ call.year_now = 2021
    /\ ret = Err("invalid date")

\* the year and month written in a string YYYY-MM or YYYYMM, or <<>>
YearMonthWritten(s) ==
    CASE Len(s) = 6 /\ AllDigits(s, 1, 6) ->
            <<NumberAt(s, 1, 4), NumberAt(s, 5, 6)>>
      [] Len(s) = 7 /\ s[5] = "-" /\ AllDigits(s, 1, 4) /\ AllDigits(s, 6, 7) ->
            <<NumberAt(s, 1, 4), NumberAt(s, 6, 7)>>
      [] OTHER -> <<>>

\* C19: parse_ym of YYYY-MM or YYYYMM with month 01 to 12 returns day 1 of
\* the month and its last calendar day, the day before day 1 of the
\* following month (December and February of leap and non-leap years too);
\* any other string is an error, not a panic.
C19_ParseYm ==
    call.op = "parse_ym" =>
        LET w == YearMonthWritten(call.s)
        IN  IF w # <<>> /\ w[2] \in 1..12
            THEN /\ ret.ok
                 /\ LET first == ret.val[1]
                        last == ret.val[2]
                    IN  /\ <<YearOf(first), MonthOf(first), DayOf(first)>>
                            = <<w[1], w[2], 1>>
                        /\ <<YearOf(last), MonthOf(last)>> = <<w[1], w[2]>>
                        /\ RealDay(w[1], w[2], DayOf(last))
                        /\ ~RealDay(w[1], w[2], DayOf(last) + 1)
                        /\ DayOf(last + 1) = 1
                        /\ MonthOf(last + 1) = (w[2] % 12) + 1
                        /\ last - first = DayOf(last) - 1
            ELSE ret = Err("invalid format")

C19_Witness ==
    /\ call.op = "parse_ym"
    /\ call.s = <<"2", "0", "2", "0", "-", "0", "2">>
    /\ ret.ok
    /\ DayOf(ret.val[2]) = 29

(***************************************************************************)
(* TaskTime as text: Display and TaskTime::parse, both with the format     *)
(* %Y-%m-%dT%H:%M:%S (core/src/datetime.rs 8, 35-40, 66-69), and the other *)
(* constructors of TaskTime.  Times have the resolution of a second; the   *)
(* years are 0000 to 9999, which %Y writes with four digits.               *)
(***************************************************************************)
DigitChar(n) ==
    CASE n = 0 -> "0" [] n = 1 -> "1" [] n = 2 -> "2" [] n = 3 -> "3"
      [] n = 4 -> "4" [] n = 5 -> "5" [] n = 6 -> "6" [] n = 7 -> "7"
      [] n = 8 -> "8" [] n = 9 -> "9"

\* a number written with width digits, zero padded
Pad(n, width) ==
    [i \in 1..width |-> DigitChar((n \div (10 ^ (width - i))) % 10)]

\* impl Display for TaskTime
to_string(self) ==
    Pad(YearOf(self.date), 4) \o <<"-">> \o Pad(MonthOf(self.date), 2)
    \o <<"-">> \o Pad(DayOf(self.date), 2) \o <<"T">> \o Pad(self.hour, 2)
    \o <<":">> \o Pad(self.min, 2) \o <<":">> \o Pad(self.sec, 2)

\* NaiveDateTime::parse_from_str(s, DATETIME_FORMAT) of a string of the
\* shape dddd-dd-ddTdd:dd:dd (the strings of other shapes applied here are
\* errors); second 60 is read as a leap second of second 59
parse_from_str(s) ==
    IF /\ Len(s) = 19
       /\ \A i \in 1..19 :
            IF i \in {5, 8} THEN s[i] = "-"
            ELSE IF i = 11 THEN s[i] = "T"
            ELSE IF i \in {14, 17} THEN s[i] = ":"
            ELSE s[i] \in Digits
    THEN LET date == from_ymd_opt(ParseNumber(SubSeq(s, 1, 4)),
                                  ParseNumber(SubSeq(s, 6, 7)),
                                  ParseNumber(SubSeq(s, 9, 10)))
             h == ParseNumber(SubSeq(s, 12, 13))
             m == ParseNumber(SubSeq(s, 15, 16))
             sec == ParseNumber(SubSeq(s, 18, 19))
         IN  IF date.some /\ h < 24 /\ m < 60 /\ sec <= 60
             THEN Ok([date |-> date.val, hour |-> h, min |-> m,
                      sec |-> IF sec = 60 THEN 59 ELSE sec])
             ELSE Err("input is out of range")
    ELSE Err("invalid format")

\* TaskTime::parse
TaskTimeParse(s) ==
    LET datetime == parse_from_str(s)
    IN  IF ~datetime.ok THEN datetime ELSE Ok(TaskTimeFrom(datetime.val))

\* TaskTime::parse_hm; today is Local::now().date_naive()
parse_hm(s, today) ==
    LET hm == parse_time_hm(s)
    IN  IF ~hm.ok THEN hm
        ELSE Ok(TaskTimeFrom(and_hms_opt(today, hm.val[1], hm.val[2], 0).val))

\* TaskTime::now; clock is Local::now().naive_local()
TaskTimeNow(clock) == TaskTimeFrom(clock)

(***************************************************************************)
(* The constructors of TaskTime applied to inputs from bounded sets; each  *)
(* behaviour is one call.                                                  *)
(***************************************************************************)
\* the date parts of the texts: real days and February 29 of 2021
DateTexts ==
    {<<"2", "0", "2", "1", "-", "1", "2", "-", "3", "1">>,
     <<"2", "0", "2", "0", "-", "0", "2", "-", "2", "9">>,
     <<"2", "0", "2", "1", "-", "0", "2", "-", "2", "9">>,
     <<"2", "0", "2", "2", "-", "0", "6", "-", "3", "0">>}

HourTexts ==
    {<<"0", "0">>, <<"0", "4">>, <<"1", "1">>, <<"2", "3">>, <<"2", "4">>}

MinuteTexts == {<<"0", "0">>, <<"3", "0">>, <<"5", "9">>, <<"6", "0">>}

SecondTexts ==
    {<<"0", "0">>, <<"2", "5">>, <<"3", "0">>, <<"5", "9">>, <<"6", "0">>,
     <<"6", "1">>, <<>>}

DateTimeStrings ==
    {d \o <<"T">> \o h \o <<":">> \o m \o <<":">> \o sec :
        d \in DateTexts, h \in HourTexts, m \in MinuteTexts,
        sec \in SecondTexts}

\* the NaiveDateTimes given to From and read from the clock
DateTimes ==
    {[date |-> from_ymd_opt(x[1], x[2], x[3]).val, hour |-> h, min |-> m,
      sec |-> sec] :
        x \in {<<2021, 12, 31>>, <<2020, 2, 29>>, <<2022, 6, 30>>},
        h \in {0, 4, 5, 11, 23}, m \in {0, 30, 59}, sec \in {0, 25, 30, 59}}

\* the value of Local::now().date_naive(): 2021-12-31
Today == from_ymd_opt(2021, 12, 31).val

InitTime ==
    /\ call = [op |-> "none"]
    /\ ret = None
    /\ db = EmptyDb

CallTaskTimeFrom ==
    /\ call.op = "none"
    /\ \E value \in DateTimes :
        /\ call' = [op |-> "TaskTime::from", value |-> value]
        /\ ret' = TaskTimeFrom(value)
        /\ UNCHANGED db

CallTaskTimeParse ==
    /\ call.op = "none"
    /\ \E s \in DateTimeStrings :
        /\ call' = [op |-> "TaskTime::parse", s |-> s]
        /\ ret' = TaskTimeParse(s)
        /\ UNCHANGED db

CallParseHm ==
    /\ call.op = "none"
    /\ \E s \in TimeStrings :
        /\ call' = [op |-> "parse_hm", s |-> s, today |-> Today]
        /\ ret' = parse_hm(s, Today)
        /\ UNCHANGED db

CallNow ==
    /\ call.op = "none"
    /\ \E clock \in DateTimes :
        /\ call' = [op |-> "now", clock |-> clock]
        /\ ret' = TaskTimeNow(clock)
        /\ UNCHANGED db

NextTime ==
    \/ CallTaskTimeFrom
    \/ CallTaskTimeParse
    \/ CallParseHm
    \/ CallNow
    \/ CallAndHmOpt
    \/ CallParseWithDate

SpecTime == InitTime /\ [][NextTime]_vars

\* whether a TaskTime is returned, and the TaskTime returned
TaskTimeReturned ==
    CASE call.op \in {"TaskTime::from", "now"} -> TRUE
      [] call.op = "and_hm_opt" -> ret.some
      [] call.op \in {"TaskTime::parse", "parse_hm", "parse_with_date"} ->
            ret.ok
      [] OTHER -> FALSE

ReturnedTaskTime ==
    IF call.op \in {"TaskTime::from", "now"} THEN ret ELSE ret.val

\* The date and time written in a string YYYY-MM-DDTHH:MM:SS whose fields
\* name a day of the calendar and a time of day, or <<>>
DateTimeWritten(s) ==
    IF /\ Len(s) = 19
       /\ <<s[5], s[8], s[11], s[14], s[17]>> = <<"-", "-", "T", ":", ":">>
       /\ AllDigits(s, 1, 4) /\ AllDigits(s, 6, 7) /\ AllDigits(s, 9, 10)
       /\ AllDigits(s, 12, 13) /\ AllDigits(s, 15, 16) /\ AllDigits(s, 18, 19)
       /\ RealDay(NumberAt(s, 1, 4), NumberAt(s, 6, 7), NumberAt(s, 9, 10))
       /\ NumberAt(s, 12, 13) <= 23
       /\ NumberAt(s, 15, 16) <= 59
       /\ NumberAt(s, 18, 19) <= 59
    THEN <<NumberAt(s, 1, 4), NumberAt(s, 6, 7), NumberAt(s, 9, 10),
           NumberAt(s, 12, 13), NumberAt(s, 15, 16), NumberAt(s, 18, 19)>>
    ELSE <<>>

\* C20: every TaskTime built by From<NaiveDateTime>, parse, parse_hm,
\* parse_with_date, and_hm_opt or now has seconds zero; From and parse drop
\* the seconds without rounding (11:30:25 gives 11:30:00); and parse of the
\* text of a TaskTime gives that TaskTime back.
C20_TruncatedRoundTrip ==
    /\ TaskTimeReturned =>
        /\ ReturnedTaskTime.sec = 0
        /\ TaskTimeParse(to_string(ReturnedTaskTime)) = Ok(ReturnedTaskTime)
    /\ call.op = "TaskTime::from" =>
        ret = [date |-> call.value.date, hour |-> call.value.hour,
               min |-> call.value.min, sec |-> 0]
    /\ call.op = "now" =>
        ret = [date |-> call.clock.date, hour |-> call.clock.hour,
               min |-> call.clock.min, sec |-> 0]
    /\ call.op = "TaskTime::parse" /\ DateTimeWritten(call.s) # <<>> =>
        LET w == DateTimeWritten(call.s)
        IN  /\ ret.ok
            /\ <<YearOf(ret.val.date), MonthOf(ret.val.date),
                 DayOf(ret.val.date), ret.val.hour, ret.val.min,
                 ret.val.sec>> = <<w[1], w[2], w[3], w[4], w[5], 0>>

C20_Witness ==
    /\ call.op = "TaskTime::parse"
    /\ call.s = <<"2", "0", "2", "2", "-", "0", "6", "-", "3", "0", "T",
                  "1", "1", ":", "3", "0", ":", "2", "5">>
    /\ ret.ok
    /\ to_string(ret.val) =
            <<"2", "0", "2", "2", "-", "0", "6", "-", "3", "0", "T",
              "1", "1", ":", "3", "0", ":", "0", "0">>

(***************************************************************************)
(* Durations: the TimeDelta of a subtraction of TaskTimes, in minutes, and *)
(* its text (core/src/datetime.rs 42-56, 100-108).                         *)
(***************************************************************************)
\* the greatest magnitude, in minutes, of the durations formatted below
\* (more than 100 hours)
MaxDeltaMinutes == 6100

\* the integer division and remainder of Rust: the quotient is truncated
\* towards zero and the remainder has the sign of the dividend
Abs(n) == IF n < 0 THEN -n ELSE n

TruncDiv(a, b) == IF a < 0 THEN -((-a) \div b) ELSE a \div b

TruncRem(a, b) == a - b * TruncDiv(a, b)

\* the decimal digits of a natural number
RECURSIVE Decimal(_)
Decimal(n) ==
    IF n < 10 THEN <<DigitChar(n)>>
    ELSE Decimal(n \div 10) \o <<DigitChar(n % 10)>>

\* format!("{:>02}", n) of n >= 0: the 0 flag pads with zeros to a width of
\* at least two
ZeroPad2(n) == IF n < 10 THEN <<"0">> \o Decimal(n) ELSE Decimal(n)

\* to_string_hm with a quotient rounded down instead of truncated
TimeDelta_to_string_hmFloor(minutes) ==
    LET quo == Abs(minutes \div 60)
        rem == Abs(minutes % 60)
        sign == IF minutes < 0 THEN <<"-">> ELSE <<>>
    IN  sign \o ZeroPad2(quo) \o <<":">> \o ZeroPad2(rem)

\* impl TimeDisplay for TimeDelta: to_string_hm of self.num_minutes()
TimeDelta_to_string_hm(minutes) ==
    LET quo == Abs(TruncDiv(minutes, 60))
        rem == Abs(TruncRem(minutes, 60))
        sign == IF minutes < 0 THEN <<"-">> ELSE <<>>
    IN  sign \o ZeroPad2(quo) \o <<":">> \o ZeroPad2(rem)

\* the durations formatted: every whole number of minutes up to the bound
Deltas == (-MaxDeltaMinutes)..MaxDeltaMinutes

\* the TaskTimes subtracted
SubTimes == {TaskTimeFrom(value) : value \in DateTimes}

InitDuration ==
    /\ call = [op |-> "none"]
    /\ ret = None
    /\ db = EmptyDb

CallSub ==
    /\ call.op = "none"
    /\ \E a \in SubTimes, b \in SubTimes :
        /\ call' = [op |-> "sub", self |-> a, rhs |-> b]
        /\ ret' = TaskTimeSub(a, b)
        /\ UNCHANGED db

CallDeltaToStringHm ==
    /\ call.op = "none"
    /\ \E minutes \in Deltas :
        /\ call' = [op |-> "TimeDelta::to_string_hm", minutes |-> minutes]
        /\ ret' = TimeDelta_to_string_hm(minutes)
        /\ UNCHANGED db

\* the place of a character in the byte order by which String::cmp
\* compares: "-" before the digits, ":" after them
ByteOf(c) ==
    CASE c = "-" -> 45 [] c = ":" -> 58 [] OTHER -> 48 + DigitValue(c)

\* String::cmp(a, b) is Less: at the first place where they differ a has
\* the lesser byte, or a is a proper prefix of b
StringLess(a, b) ==
    \E k \in 1..Len(b) :
        /\ \A i \in 1..(k - 1) : i <= Len(a) /\ a[i] = b[i]
        /\ \/ k > Len(a)
           \/ k <= Len(a) /\ ByteOf(a[k]) < ByteOf(b[k])

\* the rows of table::task_durations for the map of durations of a
\* summary (task name to minutes): task and formatted duration, sorted by
\* sort_by(|a, b| b.duration.cmp(&a.duration)); the rows come out of the
\* HashMap in any order, so rows of equal text take any order.  The percent
\* column is left out.
task_duration_rows(durations) ==
    LET names == DOMAIN durations
        n == Cardinality(names)
        text(name) == TimeDelta_to_string_hm(durations[name])
    IN  {[k \in 1..n |-> [task |-> p[k], duration |-> text(p[k])]] :
            p \in {q \in [1..n -> names] :
                    /\ \A i, j \in 1..n : i # j => q[i] # q[j]
                    /\ \A i, j \in 1..n :
                        i < j => ~StringLess(text(q[i]), text(q[j]))}}

\* the durations of the tasks of a summary: one or two tasks; short and
\* long durations, 100 hours, and negative ones (a record with an end
\* before its begin)
DurationSamples == {-120, -60, 0, 30, 600, 5940, 6000}

DurationMaps ==
    UNION {[names -> DurationSamples] : names \in {{"a"}, {"a", "b"}}}

CallTaskDurationRows ==
    /\ call.op = "none"
    /\ \E durations \in DurationMaps :
        \E rows \in task_duration_rows(durations) :
            /\ call' = [op |-> "task_durations", durations |-> durations]
            /\ ret' = rows
            /\ UNCHANGED db

NextDuration ==
    \/ CallSub
    \/ CallDeltaToStringHm
    \/ CallTaskDurationRows

SpecDuration == InitDuration /\ [][NextDuration]_vars

\* the number a sequence of digits writes
RECURSIVE DigitsValue(_)
DigitsValue(str) ==
    IF Len(str) = 0 THEN 0
    ELSE 10 * DigitsValue(SubSeq(str, 1, Len(str) - 1))
         + DigitValue(str[Len(str)])

\* text is sign, hours, ":" and minutes for the n minutes of a duration:
\* the hours are |n| div 60 in two digits or more (no zero in front of more
\* than two), the minutes are |n| mod 60 in two digits
WrittenHm(text, n) ==
    LET signed == Len(text) > 0 /\ text[1] = "-"
        body == IF signed THEN SubSeq(text, 2, Len(text)) ELSE text
        hh == SubSeq(body, 1, Len(body) - 3)
        mm == SubSeq(body, Len(body) - 1, Len(body))
        m == IF n < 0 THEN -n ELSE n
    IN  /\ signed <=> n < 0
        /\ Len(body) >= 5
        /\ body[Len(body) - 2] = ":"
        /\ \A i \in 1..Len(hh) : hh[i] \in Digits
        /\ \A i \in 1..2 : mm[i] \in Digits
        /\ Len(hh) > 2 => hh[1] # "0"
        /\ DigitsValue(hh) = m \div 60
        /\ DigitsValue(mm) = m % 60


\* C21: to_string_hm of a duration of n whole minutes, n of either sign or
\* zero, is sign, HH, ":" and MM, where HH is |n| div 60 padded with zeros
\* to at least two digits, MM is |n| mod 60 in two digits and the sign is
\* "-" exactly when n < 0 (74 gives 01:14, -74 gives -01:14, -30 gives
\* -00:30); b - a is the signed difference in minutes, so a - b = -(b - a).
C21_DurationText ==
    /\ call.op = "TimeDelta::to_string_hm" =>
        /\ WrittenHm(ret, call.minutes)
        /\ call.minutes = 74 => ret = <<"0", "1", ":", "1", "4">>
        /\ call.minutes = -74 => ret = <<"-", "0", "1", ":", "1", "4">>
        /\ call.minutes = -30 => ret = <<"-", "0", "0", ":", "3", "0">>
    /\ call.op = "sub" =>
        /\ ret = (call.self.date - call.rhs.date) * 1440
                 + (call.self.hour - call.rhs.hour) * 60
                 + (call.self.min - call.rhs.min)
        /\ TaskTimeSub(call.rhs, call.self) = -ret

C21_Witness ==
    /\ call.op = "TimeDelta::to_string_hm"
    /\ call.minutes = -6001
    /\ ret = <<"-", "1", "0", "0", ":", "0", "1">>

\* C25: the per-task duration table is sorted in descending order of
\* duration: whatever the durations of the tasks (100 hours and more, and
\* negative ones, included), the duration of each row is greater than or
\* equal to the duration of the row after it.
C25_SortedByDuration ==
    call.op = "task_durations" =>
        \A k \in 1..(Len(ret) - 1) :
            call.durations[ret[k].task] >= call.durations[ret[k + 1].task]

\* C28: for every input with at least one work record the total_duration of
\* TaskSummary::from is the sum of the values of its task_durations map,
\* also when the input has open records, whose duration comes from one
\* clock read (TaskTime::now) for each of the two sums.
C28_TotalIsSumOfTasks ==
    SummaryReturned =>
        ret.total_duration
            = SumOver(DOMAIN ret.task_durations, ret.task_durations)

(***************************************************************************)
(* The store through the Manipulation trait (core/src/repository.rs,      *)
(* core/src/sqlite_db.rs 95-332): tasks are registered and unregistered,   *)
(* records are inserted, and the queries are answered from the tables.     *)
(***************************************************************************)
\* the greatest number of rows of the records table
MaxRepoRows == 3

\* Manipulation::get_task: the row of the id, or the error of query_row
get_task(self, id) ==
    IF id \in 1..Len(self.tasks) THEN Ok(self.tasks[id])
    ELSE Err("QueryReturnedNoRows")

\* the working dates of the records written
RepoDates == {SampleDate, SampleDate + 1}

\* the begin and end times of the records written
RepoBegins(date) == {TaskTimeAt(date, 9, 0), TaskTimeAt(date, 10, 0)}

RepoEnds(date) == {None, Some(TaskTimeAt(date, 10, 0))}

\* the ids given to get_task and unregister_task: rows 1 and 2, present or
\* not
RepoIds == {1, 2}

InitRepo ==
    /\ call = [op |-> "none"]
    /\ ret = None
    /\ db = EmptyDb

\* register_task of a new task
RepoRegisterTask ==
    /\ Len(db.tasks) < Len(NewTasks)
    /\ LET task == NewTasks[Len(db.tasks) + 1]
       IN  /\ call' = [op |-> "register_task", task |-> task]
           /\ ret' = Done
           /\ db' = register_task(db, task)

RepoUnregisterTask ==
    \E id \in RepoIds :
        /\ call' = [op |-> "unregister_task", id |-> id]
        /\ ret' = Done
        /\ db' = unregister_task(db, id)

\* add_record of a new record of the first task (the foreign key needs the
\* task in the table)
RepoAddRecord ==
    /\ Len(db.tasks) >= 1
    /\ Len(db.records) < MaxRepoRows
    /\ \E date \in RepoDates :
        \E begin \in RepoBegins(date), end \in RepoEnds(date) :
            LET record == NewTaskRecord(None, db.tasks[1], date, begin, end)
            IN  /\ call' = [op |-> "add_record", record |-> record]
                /\ ret' = Done
                /\ db' = add_record(db, record)

RepoCurrentState ==
    \E date \in RepoDates :
        \E state \in current_state(db, date) :
            /\ call' = [op |-> "current_state", date |-> date]
            /\ ret' = state
            /\ UNCHANGED db

RepoTasks ==
    \E list \in tasks(db) :
        /\ call' = [op |-> "tasks"]
        /\ ret' = Ok(list)
        /\ UNCHANGED db

RepoGetTask ==
    \E id \in RepoIds :
        /\ call' = [op |-> "get_task", id |-> id]
        /\ ret' = get_task(db, id)
        /\ UNCHANGED db

NextRepo ==
    \/ RepoRegisterTask
    \/ RepoUnregisterTask
    \/ RepoAddRecord
    \/ RepoCurrentState
    \/ RepoTasks
    \/ RepoGetTask

SpecRepo == InitRepo /\ [][NextRepo]_vars

\* the rows of a working date, and those of them of the greatest begin
RowsOf(date) ==
    {i \in 1..Len(db.records) : db.records[i].working_date = date}

LatestOf(date) ==
    {i \in RowsOf(date) :
        \A j \in RowsOf(date) :
            MinuteOf(db.records[j].begin) <= MinuteOf(db.records[i].begin)}

\* the store without the records of the other working dates
OnlyDate(date) ==
    [db EXCEPT !.records =
        SelectSeq(db.records, LAMBDA row : row.working_date = date)]

\* C22: current_state(date) is Active(r) exactly when the record of the
\* date with the greatest begin has no end, and r is that record; it is
\* Completed when the date has no record or that record has an end; the
\* records of other working dates have no influence.
C22_CurrentState ==
    call.op = "current_state" =>
        LET open == {i \in LatestOf(call.date) : ~db.records[i].end.some}
        IN  /\ ret.active <=> open # {}
            /\ ret.active =>
                \E i \in open : ret.record = ReadRecord(db, db.records[i])
            /\ ret \in current_state(OnlyDate(call.date), call.date)

\* C23: unregister_task(id) is a soft delete: it sets is_active to false on
\* the task of that id and changes nothing else; tasks() and get_task(id)
\* still return the task with its id, levels, description and is_break,
\* every other task is as it was, and no record is changed or removed.
C23_SoftDelete ==
    [][call'.op = "unregister_task" =>
        LET id == call'.id
            present == id \in 1..Len(db.tasks)
            kept == [db.tasks[id] EXCEPT !.is_active = FALSE]
        IN  /\ ret' = Done
            /\ db'.records = db.records
            /\ Len(db'.tasks) = Len(db.tasks)
            /\ \A i \in 1..Len(db.tasks) :
                i # id => db'.tasks[i] = db.tasks[i]
            /\ get_task(db', id) = IF present THEN Ok(kept)
                                   ELSE get_task(db, id)
            /\ present =>
                /\ db'.tasks[id] = kept
                /\ kept.id = Some(id)
                /\ \A list \in tasks(db') :
                    /\ Len(list) = Len(db.tasks)
                    /\ \E k \in 1..Len(list) : list[k] = kept
                    /\ \A i \in 1..Len(db.tasks) :
                        i # id => \E k \in 1..Len(list) :
                                    list[k] = db.tasks[i]]_vars

C23_Witness ==
    /\ call.op = "unregister_task"
    /\ call.id = 1
    /\ Len(db.tasks) = 2
    /\ ~db.tasks[1].is_active
    /\ db.tasks[2].is_active
    /\ Len(db.records) >= 1
    /\ get_task(db, 1).ok

(***************************************************************************)
(* The task commands and the selection lists (sgt/src/subcommand/task/     *)
(* ls.rs and unregister.rs, sgt/src/subcommand/start.rs 26-30): tasks are  *)
(* registered, unregistered through the prompts and listed, and start      *)
(* offers its list of tasks.                                               *)
(***************************************************************************)
\* the answers to the confirm prompt: yes, no (the default), or the prompt
\* is cancelled
Answers == {Ok(TRUE), Ok(FALSE), Err("OperationCanceled")}

\* subcommand::task::unregister::run: a task is selected or the select
\* prompt is cancelled (None); the confirm prompt follows a selection
TaskUnregister ==
    \E list \in tasks(db) :
        \/ /\ call' = [op |-> "task unregister", selected |-> None,
                       answer |-> None]
           /\ ret' = Done
           /\ db' = db
        \/ \E task_name \in DOMAIN map_tasks(list), answer \in Answers :
            LET task == map_tasks(list)[task_name]
            IN  /\ call' = [op |-> "task unregister",
                            selected |-> Some(task.id.val),
                            answer |-> Some(answer)]
                /\ ret' = Done
                /\ db' = IF answer = Ok(FALSE)
                         THEN unregister_task(db, task.id.val)
                         ELSE db

\* subcommand::task::ls::run: the tasks given to table::task_list
TaskLs ==
    \E show_all \in BOOLEAN, list \in tasks(db) :
        /\ call' = [op |-> "task ls", show_all |-> show_all]
        /\ ret' = Ok(IF show_all THEN list
                     ELSE SelectSeq(list, LAMBDA task : task.is_active))
        /\ db' = db

NextTaskCli ==
    \/ RegisterTask
    \/ TaskUnregister
    \/ TaskLs
    \/ Start

SpecTaskCli == InitStore /\ [][NextTaskCli]_vars

\* the keys of the tasks of the store that are not active
InactiveKeys ==
    {TaskKey(db.tasks[i]) :
        i \in {j \in 1..Len(db.tasks) : ~db.tasks[j].is_active}}

\* C24: inactive tasks are hidden from the selection lists by default: in
\* every reachable state of the store, task ls without the all flag lists
\* active tasks only, and the list of tasks start offers holds no task
\* whose is_active is false.
C24_InactiveHidden ==
    /\ call.op = "task ls" /\ ~call.show_all =>
        \A k \in 1..Len(ret.val) : ret.val[k].is_active
    /\ call.op = "start" =>
        \A k \in 1..Len(call.task_names) :
            call.task_names[k] \notin InactiveKeys

\* C29: task unregister deactivates the selected task if and only if the
\* answer to the confirmation is yes: with the answer no (the default) or
\* a cancelled prompt every task stays as it is, with yes the selected task
\* has is_active false.
C29_UnregisterOnYes ==
    [][call'.op = "task unregister" /\ call'.selected.some =>
        IF call'.answer = Some(Ok(TRUE))
        THEN db' = unregister_task(db, call'.selected.val)
        ELSE db' = db]_vars

(***************************************************************************)
(* One working day of start, end and fix (sgt/src/subcommand/start.rs,     *)
(* end.rs, fix.rs), with the date argument and with times before and after *)
(* the cutoff.  One task is registered; the records table holds up to      *)
(* MaxDayRows rows.                                                        *)
(***************************************************************************)
MaxDayRows == 3

\* the date argument: absent, the date of the day, or a text that is no date
DateArguments ==
    {None, Some(<<"0", "0", "0", "1", "-", "0", "1", "-", "0", "1">>),
     Some(<<"a">>)}

\* start.rs 18-22: WorkingDate::parse of the argument, or
\* WorkingDate::today(), which is the day SampleDate
DateOutcome(arg) ==
    IF arg.some THEN WorkingDateParse(arg.val, YearOf(SampleDate))
    ELSE Ok(SampleDate)

DayDates == {DateOutcome(arg) : arg \in DateArguments}

\* the entries at the two prompts of fix: each left, or one of the texts
DayFixEntries ==
    ({None} \cup {Some(text) : text \in DayTexts})
    \X ({None} \cup {Some(text) : text \in DayTexts})

\* the task of the day is registered
WorkdayRegisterTask ==
    /\ Len(db.tasks) = 0
    /\ call' = [op |-> "register_task", task |-> NewTasks[1]]
    /\ ret' = Done
    /\ db' = register_task(db, NewTasks[1])

WorkdayStart == StartWith(DayDates, DayTexts, MaxDayRows)

WorkdayEnd == EndWith(DayDates, DayTexts)

WorkdayFix == FixWith(DayDates, DayFixEntries)

NextDay ==
    \/ WorkdayRegisterTask
    \/ WorkdayStart
    \/ WorkdayEnd
    \/ WorkdayFix

SpecDay == InitStore /\ [][NextDay]_vars

\* the rows of a working date that have no end
OpenRows(date) ==
    {i \in 1..Len(db.records) :
        db.records[i].working_date = date /\ ~db.records[i].end.some}

\* C26: after any sequence of start, end and fix, with any begin and end
\* the user may type (a begin earlier than the begin of the running record
\* included), each working date has at most one record without an end.
C26_OneOpenRecord ==
    \A date \in StoreDates : Cardinality(OpenRows(date)) <= 1

\* a time lies in the working day of date: from 05:00 of the calendar day
\* to 04:59 of the next
InWorkingDay(t, date) ==
    /\ MinuteOf(TaskTimeAt(date, 5, 0)) <= MinuteOf(t)
    /\ MinuteOf(t) <= MinuteOf(TaskTimeAt(date + 1, 4, 59))

\* C27: every record start, end or fix has written for working date d stays
\* inside that working day: its begin, and its end when it has one, lie
\* between 05:00 of day d and 04:59 of day d+1, so WorkingDate::from of
\* each is the working_date of the record.
C27_InsideWorkingDay ==
    \A i \in 1..Len(db.records) :
        LET row == db.records[i]
        IN  /\ InWorkingDay(row.begin, row.working_date)
            /\ WorkingDateFrom(row.begin) = row.working_date
            /\ row.end.some =>
                /\ InWorkingDay(row.end.val, row.working_date)
                /\ WorkingDateFrom(row.end.val) = row.working_date

C27_Witness ==
    \E i, j \in 1..Len(db.records) :
        /\ call.op = "fix"
        /\ db.records[i].begin = TaskTimeAt(SampleDate + 1, 3, 0)
        /\ db.records[i].end = Some(TaskTimeAt(SampleDate + 1, 3, 0))
        /\ db.records[j].begin = TaskTimeAt(SampleDate, 9, 0)
        /\ db.records[j].end = Some(TaskTimeAt(SampleDate + 1, 3, 0))

\* C30: a format error changes nothing: when the date argument or a time
\* entered in start, end or fix is not parsed, the command returns the
\* error and the store is as it was before the command: no record
\* inserted, no running record closed, no record modified.
C30_FormatErrorChangesNothing ==
    [][/\ call'.op \in {"start", "end", "fix"}
       /\ ret' # Panic
       /\ ~ret'.ok
       => db' = db]_vars

C30_Witness ==
    /\ call.op = "fix"
    /\ ret = Err("invalid format")
    /\ OpenRows(SampleDate) # {}
    /\ Len(db.records) >= 2

====
